---- MODULE Spec2Model ----
(***************************************************************************)
(* A model of pkg/apk/apk/implementation.go: the install pipeline          *)
(* (APK.InstallPackages, and APK.FixateWorld which calls it), the          *)
(* deduplicating expansion cache (apkCache.get) and the package expansion  *)
(* service (expandPackage, cachedPackage, cachePackage).                   *)
(*                                                                         *)
(* Indices are those of the source (0 .. N-1).  Goroutines are modelled    *)
(* by a program counter each; every action is one step of one goroutine    *)
(* between two points at which another goroutine can observe it.           *)
(***************************************************************************)
EXTENDS Integers, Sequences, FiniteSets, TLC

\* Length of the ordered list handed to InstallPackages.
NPkgs == 3
\* runtime.GOMAXPROCS(0) of the process.
Jobs == 2
\* Number of InstallPackages calls made on the same target, one after another.
MaxRuns == 2

\* The package names the resolver can hand over.
Names == {"a", "b"}

\* What an earlier process can have installed on the target.
PreInstalled == {{}, {"a"}}

\* The paths a package archive can carry.
Paths == {"/d", "/f", "/g"}

\* The tar headers of a package's data segment, in archive order.
PkgFiles(n) ==
    IF n = "a"
    THEN << [name |-> "/d", dir |-> TRUE], [name |-> "/f", dir |-> FALSE] >>
    ELSE << [name |-> "/d", dir |-> TRUE], [name |-> "/f", dir |-> FALSE],
            [name |-> "/g", dir |-> FALSE] >>

Idx == 0 .. (NPkgs - 1)

\* Number of concurrent calls of APK.expandPackage in one process.
NCallers == 2
Callers == 1 .. NCallers

\* The packages expandPackage is called with: the URL, the declared checksum
\* (tag and digest) and, behind the URL, the archive: the hash of its control
\* segment, the datahash its control segment declares, whether it is signed.
\* b64: what follows the tag decodes as base64.
APkg(u, t, b, s, c, d, sg) ==
    [url |-> u, tag |-> t, b64 |-> b, sum |-> s, ctl |-> c, dat |-> d, signed |-> sg]
CPkgs ==
    { APkg("u1", "Q1", TRUE, "h1", "h1", "d1", TRUE),
      APkg("u2", "Q1", TRUE, "h2", "h2", "d2", FALSE) }

\* The same archive as u1 under a second URL.
Mirrors == { APkg("u1", "Q1", TRUE, "h1", "h1", "d1", TRUE),
             APkg("u3", "Q1", TRUE, "h1", "h1", "d1", TRUE) }

\* Packages of an index that is out of step with the repository (the archive
\* behind u4 is not the one the index entry was made from), of an index with
\* another checksum tag, and of one whose checksum does not decode.
AnyPkgs ==
    CPkgs \cup Mirrors \cup
    { APkg("u4", "Q1", TRUE, "h9", "h1", "d1", TRUE),
      APkg("u5", "Q2", TRUE, "h2", "h2", "d2", FALSE),
      APkg("u6", "Q1", FALSE, "h2", "h2", "d2", FALSE) }
URLs == {q.url : q \in AnyPkgs}

\* a file of the cache directory: <hash>.<ext>; a control file carries the
\* datahash its metadata declares
CacheFile(h, e, d) == [hash |-> h, ext |-> e, datahash |-> d]
CtlFile(h, d) == CacheFile(h, "ctl.tar.gz", d)
SigFile(h) == CacheFile(h, "sig.tar.gz", "")
DatFile(d) == CacheFile(d, "dat.tar.gz", "")
TarFile(d) == CacheFile(d, "dat.tar", "")

\* the cache entry a complete adoption of q leaves behind
Entry(q) == {CtlFile(q.ctl, q.dat), DatFile(q.dat), TarFile(q.dat)}
               \cup (IF q.signed THEN {SigFile(q.ctl)} ELSE {})

\* What the cache directory can hold when the process starts.
InitialDisks == {{}} \cup {Entry(q) : q \in CPkgs}

\* ... an entry whose data file is gone among them
BrokenDisks == { {}, {CtlFile("h1", "d1"), SigFile("h1")}, {CtlFile("h2", "d2")} }

\* results: an *APKExpanded or an error, made by caller `by`
Res(k, c, w) == [kind |-> k, by |-> c, what |-> w]
NoRes == Res("none", 0, "")

\* A *Package pointer: the record packageInfo allocates for index idx of call
\* run.  NilPkg is the nil pointer; OldPkg stands for a record of an earlier
\* process, known only to the installed database.
PkgPtr(r, i) == [run |-> r, idx |-> i]
NilPkg == [run |-> 0, idx |-> -1]
OldPkg == [run |-> 0, idx |-> 0]

\* An *APKResolved: NewAPKResolved(pkg, expanded) made by the worker of index
\* i for the package name n; NoWorld is the nil pointer.
APKResolved(n, i) == [name |-> n, idx |-> i]
NoWorld == APKResolved("", -1)

\* error values; NoErr is nil
Err(k, i) == [kind |-> k, idx |-> i]
NoErr == Err("nil", -1)

VARIABLES
    \* ---- InstallPackages: arguments and the target (fields of APK) ----
    allpkgs,        \* the ordered list: index -> package name
    jobs,           \* runtime.GOMAXPROCS(0) of the process
    joined,         \* history: the context as g.Wait() returned, "none" before
    ctxDone,        \* the caller-supplied ctx is cancelled
    run,            \* which call of InstallPackages is running (1 ..)
    fs,             \* a.fs: path -> *Package that last wrote it
    scripts,        \* scripts.tar: the packages appended to it
    triggers,       \* triggers file: the packages appended to it
    installedFiles, \* a.installedFiles: path -> owning *Package
    db,             \* installed database: sequence of [name, pkg, files]
    resolved,       \* number of resolveApkDB runs that succeeded
    \* ---- InstallPackages: locals ----
    mpc,            \* position of the calling goroutine
    mi,             \* its loop index
    sem,            \* errgroup: number of tasks holding a token
    gerr,           \* errgroup: the first error recorded
    expanded,       \* expanded[i] # nil
    done,           \* done[i] is closed
    infos,          \* infos[i]
    allFiles,       \* allFiles[i]
    wpc,            \* position of expansion worker i
    werr,           \* the error worker i returns
    apc,            \* position of the sequential applier
    ai,             \* its loop index
    aerr,           \* the error it returns
    ret,            \* what the call returned
    \* ---- history ----
    status,         \* what the applier did with index i in this call
    wrote,          \* the *Package values whose apply wrote the target fs
    rets,           \* what the earlier calls returned
    \* ---- FixateWorld ----
    conflicts,      \* the conflict names ResolveWorld returned
    ci,             \* position of the loop over them
    fpc,            \* position of FixateWorld, or of CalculateWorld
    \* ---- CalculateWorld ----
    world,          \* its local resolved: index -> *APKResolved
    \* ---- expandPackage and apkCache ----
    onces,          \* globalApkCache.onces: url -> state of its sync.Once
    resps,          \* globalApkCache.resps: url -> apkResult
    disk,           \* the files of the cache directory
    carg,           \* the arguments of call c: the package, and a.cache != nil
    cpc,            \* position of call c
    cexp,           \* the result call c is about to return
    csigned,        \* cachedPackage of call c has seen the signature file
    cret,           \* what call c returned
    \* ---- history ----
    did,            \* the operations call c has carried out
    before,         \* what call c returned in the process that ran before
    \* ---- resolveApkDB ----
    rlib,           \* a.fs: the node at /lib
    rapk,           \* a.fs: the node at /lib/apk
    rkids,          \* a.fs: the entries of the directory /lib/apk, in ReadDir order
    rpc,            \* position of resolveApkDB
    children,       \* the entries its last ReadDir("lib/apk") returned
    rk,             \* its loop index into children
    rrets,          \* what the runs so far returned, in order
    rfs0            \* history: /lib, /lib/apk and its entries as the run began

pvars == << allpkgs, jobs, joined, ctxDone, run, fs, scripts, triggers, installedFiles, db,
            resolved, mpc, mi, sem, gerr, expanded, done, infos, allFiles,
            wpc, werr, apc, ai, aerr, ret, status, wrote, rets,
            conflicts, ci, fpc, world >>
cvars == << onces, resps, disk, carg, cpc, cexp, csigned, cret, did, before >>
rvars == << rlib, rapk, rkids, rpc, children, rk, rrets, rfs0 >>
vars == << pvars, cvars, rvars >>

fixate == << conflicts, ci, fpc >>
\* the state of the pipeline apart from a.fs
nofs == << allpkgs, jobs, joined, ctxDone, run, scripts, triggers, installedFiles, db, resolved,
           mpc, mi, sem, gerr, expanded, done, infos, allFiles, wpc, werr, apc, ai,
           aerr, ret, status, wrote, rets, conflicts, ci, fpc, world >>
target == << fs, scripts, triggers, installedFiles, db, resolved, wrote >>
workers == << expanded, done, wpc, werr >>
applier == << apc, ai, aerr, infos, allFiles, status >>

----------------------------------------------------------------------------
\* Helpers

\* a.isInstalledPackage(name): the name is recorded in the installed database
isInstalledPackage(n) == \E k \in 1 .. Len(db) : db[k].name = n

\* the locals of a call, as InstallPackages sets them up (lines 703-718)
FreshLocals ==
    /\ mpc = "goApplier"
    /\ mi = 0
    /\ sem = 0
    /\ gerr = NoErr
    /\ expanded = [i \in Idx |-> FALSE]
    /\ done = [i \in Idx |-> FALSE]
    /\ infos = [i \in Idx |-> NilPkg]
    /\ allFiles = [i \in Idx |-> << >>]
    /\ wpc = [i \in Idx |-> "idle"]
    /\ werr = [i \in Idx |-> NoErr]
    /\ apc = "idle"
    /\ ai = 0
    /\ aerr = NoErr
    /\ ret = [kind |-> "running"]
    /\ status = [i \in Idx |-> "pending"]
    /\ joined = "none"

\* The installed database of a target on which the packages of S were
\* installed by an earlier process.
OldDb(S) ==
    LET RECURSIVE Build(_)
        Build(T) == IF T = {} THEN << >>
                    ELSE LET n == CHOOSE x \in T : TRUE
                         IN  << [name |-> n, pkg |-> OldPkg, files |-> PkgFiles(n)] >>
                             \o Build(T \ {n})
    IN  Build(S)

\* no call of expandPackage has been made in the process
NoCalls ==
    /\ onces = [u \in URLs |-> "absent"]
    /\ resps = [u \in URLs |-> NoRes]
    /\ cpc = [c \in Callers |-> "call"]
    /\ cexp = [c \in Callers |-> NoRes]
    /\ csigned = [c \in Callers |-> FALSE]
    /\ cret = [c \in Callers |-> NoRes]
    /\ did = [c \in Callers |-> {}]
    /\ before = [c \in Callers |-> NoRes]

\* A node of a.fs: absent, a directory, a file, or a symlink with its target.
Node(k, t) == [kind |-> k, target |-> t]
Absent == Node("absent", "")
Dir == Node("dir", "")
File == Node("file", "")
Link(t) == Node("link", t)

\* resolveApkDB is not running and /lib does not exist
RootIdle ==
    /\ rlib = Absent
    /\ rapk = Absent
    /\ rkids = << >>
    /\ rpc = "idle"
    /\ children = << >>
    /\ rk = 1
    /\ rrets = << >>
    /\ rfs0 = << Absent, Absent, << >> >>

\* the target and the list of a call of InstallPackages
InstallState(lists, pre) ==
    /\ allpkgs \in lists
    /\ ctxDone = FALSE
    /\ run = 1
    /\ \E S \in pre :
          /\ db = OldDb(S)
          /\ fs = [p \in Paths |->
                     IF \E n \in S : \E k \in 1 .. Len(PkgFiles(n)) : PkgFiles(n)[k].name = p
                     THEN OldPkg ELSE NilPkg]
    /\ scripts = {}
    /\ triggers = {}
    /\ installedFiles = [p \in Paths |-> NilPkg]
    /\ resolved = 0
    /\ wrote = {}
    /\ rets = << >>
    /\ world = [i \in Idx |-> NoWorld]
    /\ FreshLocals

InitInstall(lists, pre) ==
    /\ RootIdle
    /\ InstallState(lists, pre)

\* InstallPackages is called by the user of the package, not by FixateWorld
Direct ==
    /\ conflicts = << >>
    /\ ci = 0
    /\ fpc = "direct"

\* The ordered lists the resolver hands over; the first package is "a".
Lists == {l \in [Idx -> Names] : l[0] = "a"}

Init ==
    /\ InitInstall(Lists, PreInstalled)
    /\ jobs = Jobs
    /\ Direct
    /\ NoCalls
    /\ disk = {}
    /\ carg = [c \in Callers |-> [pkg |-> CHOOSE q \in CPkgs : q.url = "u1", cache |-> FALSE]]

----------------------------------------------------------------------------
\* The calling goroutine of InstallPackages

\* variant: the limit leaves no token for the workers
LimitApplierOnly == Jobs - Jobs + 1

\* g.SetLimit(jobs + 1)
Limit == jobs + 1

\* variant: Go never waits for a token
CanGoNoLimit == sem >= 0

\* errgroup.Group.Go blocks until a token of the limit is free
CanGo == sem < Limit

\* InstallPackages has been called: by the user, or by FixateWorld (line 698)
Invoked == fpc \in {"direct", "called"}

\* g.Go(func() error { for i, ch := range done { ... } })   (line 725)
MainGoApplier ==
    /\ mpc = "goApplier"
    /\ Invoked
    /\ CanGo
    /\ sem' = sem + 1
    /\ apc' = "select"
    /\ mpc' = "goWorkers"
    /\ UNCHANGED << rvars, cvars, fixate, world, allpkgs, jobs, joined, ctxDone, run, target, mi, gerr, workers, ai, aerr,
                    infos, allFiles, status, ret, rets >>

\* for i, pkg := range allpkgs { g.Go(func() error { ... }) }   (lines 768-782)
MainGoWorker ==
    /\ mpc = "goWorkers"
    /\ CanGo
    /\ sem' = sem + 1
    /\ wpc' = [wpc EXCEPT ![mi] = "running"]
    /\ mi' = mi + 1
    /\ mpc' = IF mi + 1 = NPkgs THEN "wait" ELSE "goWorkers"
    /\ UNCHANGED << rvars, cvars, fixate, world, allpkgs, jobs, joined, ctxDone, run, target, gerr, expanded, done, werr,
                    applier, ret, rets >>

\* variant: the join is over the applier only
AllReturnedApplier == apc = "exited"

\* every task of the group has returned
AllReturned == sem = 0

\* variant: the cause of the context is not looked at
withCauseNever(e) == [kind |-> "err", err |-> e, cause |-> FALSE]

\* withCause(ctx, err): the error, and whether context.Cause(ctx) annotates it
withCause(e) == [kind |-> "err", err |-> e, cause |-> ctxDone]

\* if err := g.Wait(); err != nil { return nil, ... }   (lines 784-786)
\* variant: the error of the join is not looked at
JoinFailedNever == FALSE

\* if err := g.Wait(); err != nil
JoinFailed == gerr # NoErr

MainWait ==
    /\ mpc = "wait"
    /\ AllReturned
    /\ IF JoinFailed
       THEN /\ ret' = withCause(gerr)
            /\ mpc' = "done"
            /\ mi' = mi
       ELSE /\ ret' = ret
            /\ mpc' = "finalize"
            /\ mi' = 0
    /\ joined' = IF ctxDone THEN "cancelled" ELSE "live"
    /\ UNCHANGED << rvars, cvars, fixate, world, allpkgs, jobs, ctxDone, run, target, sem, gerr, workers, applier, rets >>

\* variant: the lookup result ok is not consulted
OverwrittenNoOk(hdr, pkg) == installedFiles[hdr.name] # pkg

\* the predicate of slices.DeleteFunc: the header is dropped   (lines 801-809)
Overwritten(hdr, pkg) ==
    /\ installedFiles[hdr.name] # NilPkg
    /\ installedFiles[hdr.name] # pkg

\* files = slices.DeleteFunc(files, ...)
Deduplicated(files, pkg) ==
    LET Keep(hdr) == ~Overwritten(hdr, pkg) IN SelectSeq(files, Keep)

\* a.AddInstalledPackage(pkg, files): the database writer appends one entry
AddInstalledPackage(i, pkg, files) ==
    Append(db, [name |-> allpkgs[i], pkg |-> pkg, files |-> files])

\* one iteration of: for i, files := range allFiles { ... }   (lines 789-814)
MainFinalize ==
    /\ mpc = "finalize"
    /\ mi < NPkgs
    /\ \/ /\ infos[mi] = NilPkg
          /\ UNCHANGED << db, ret >>
          /\ mi' = mi + 1
          /\ mpc' = IF mi + 1 = NPkgs THEN "resolve" ELSE "finalize"
       \/ /\ infos[mi] # NilPkg
          /\ db' = AddInstalledPackage(mi, infos[mi], Deduplicated(allFiles[mi], infos[mi]))
          /\ ret' = ret
          /\ mi' = mi + 1
          /\ mpc' = IF mi + 1 = NPkgs THEN "resolve" ELSE "finalize"
       \/ /\ infos[mi] # NilPkg
          /\ ret' = [kind |-> "err", err |-> Err("addinstalled", mi), cause |-> FALSE]
          /\ mpc' = "done"
          /\ UNCHANGED << db, mi >>
    /\ UNCHANGED << rvars, cvars, fixate, world, allpkgs, jobs, joined, ctxDone, run, fs, scripts, triggers, installedFiles,
                    resolved, wrote, sem, gerr, workers, applier, rets >>

\* if err := a.resolveApkDB(ctx); err != nil { return nil, err }; return infos, nil
MainResolve ==
    /\ mpc = "resolve"
    /\ mpc' = "done"
    /\ \/ /\ resolved' = resolved + 1
          /\ ret' = [kind |-> "ok", infos |-> infos]
       \/ /\ resolved' = resolved
          /\ ret' = [kind |-> "err", err |-> Err("resolveApkDB", -1), cause |-> FALSE]
    /\ UNCHANGED << rvars, cvars, fixate, world, allpkgs, jobs, joined, ctxDone, run, fs, scripts, triggers, installedFiles,
                    db, wrote, mi, sem, gerr, workers, applier, rets >>

\* the caller cancels the context it passed to the running call
Cancel ==
    /\ mpc # "done"
    /\ ~ctxDone
    /\ ctxDone' = TRUE
    /\ UNCHANGED << rvars, cvars, fixate, world, allpkgs, jobs, joined, run, target, mpc, mi, sem, gerr, workers, applier,
                    ret, rets >>

\* after a successful call the caller calls InstallPackages again: same list,
\* same target, a new context
NextRun ==
    /\ mpc = "done"
    /\ ret.kind = "ok"
    /\ run < MaxRuns
    /\ run' = run + 1
    /\ rets' = Append(rets, ret)
    /\ ctxDone' = FALSE
    /\ mpc' = "goApplier"
    /\ mi' = 0
    /\ sem' = 0
    /\ gerr' = NoErr
    /\ expanded' = [i \in Idx |-> FALSE]
    /\ done' = [i \in Idx |-> FALSE]
    /\ infos' = [i \in Idx |-> NilPkg]
    /\ allFiles' = [i \in Idx |-> << >>]
    /\ wpc' = [i \in Idx |-> "idle"]
    /\ werr' = [i \in Idx |-> NoErr]
    /\ apc' = "idle"
    /\ ai' = 0
    /\ aerr' = NoErr
    /\ ret' = [kind |-> "running"]
    /\ status' = [i \in Idx |-> "pending"]
    /\ joined' = "none"
    /\ UNCHANGED << rvars, cvars, fixate, world, allpkgs, jobs, target >>

----------------------------------------------------------------------------
\* An expansion worker (lines 771-781)

\* exp, err := a.expandPackage(ctx, pkg); expanded[i] = exp
WorkerExpand(i) ==
    /\ wpc[i] = "running"
    /\ wpc' = [wpc EXCEPT ![i] = "closing"]
    /\ \/ /\ expanded' = [expanded EXCEPT ![i] = TRUE]
          /\ werr' = werr
       \/ /\ werr' = [werr EXCEPT ![i] = Err("expanding", i)]
          /\ expanded' = expanded
    /\ UNCHANGED << rvars, cvars, fixate, world, allpkgs, jobs, joined, ctxDone, run, target, mpc, mi, sem, gerr, done,
                    applier, ret, rets >>

\* variant: a returning worker closes every ready marker
ClosedAll(i) == [j \in Idx |-> TRUE]

\* close(done[i]): the ready markers after the worker of index i closed its own
Closed(i) == [done EXCEPT ![i] = TRUE]

\* defer func() { close(done[i]) }()
WorkerClose(i) ==
    /\ wpc[i] = "closing"
    /\ wpc' = [wpc EXCEPT ![i] = "returning"]
    /\ done' = Closed(i)
    /\ UNCHANGED << rvars, cvars, fixate, world, allpkgs, jobs, joined, ctxDone, run, target, mpc, mi, sem, gerr, expanded,
                    werr, applier, ret, rets >>

\* variant: the group keeps no error of its tasks
RecordedNone(e) == gerr

\* errgroup: the first non-nil error of a task is kept
Recorded(e) == IF gerr = NoErr THEN e ELSE gerr

\* the task function has returned: errgroup records its error and frees its token
WorkerReturn(i) ==
    /\ wpc[i] = "returning"
    /\ wpc' = [wpc EXCEPT ![i] = "exited"]
    /\ gerr' = Recorded(werr[i])
    /\ sem' = sem - 1
    /\ UNCHANGED << rvars, cvars, fixate, world, allpkgs, jobs, joined, ctxDone, run, target, mpc, mi, expanded, done, werr,
                    applier, ret, rets >>

----------------------------------------------------------------------------
\* The sequential applier (lines 725-764)

\* variant: the applier waits for any ready marker
ChReadyAny(i) == \E j \in Idx : done[j]

\* case <-ch: the ready marker of index i has fired
ChReady(i) == done[i]

\* select { case <-ctx.Done(): return ctx.Err() ... }
ApplierSelectCtx ==
    /\ apc = "select"
    /\ ctxDone
    /\ aerr' = Err("ctx", -1)
    /\ apc' = "returning"
    /\ UNCHANGED << rvars, cvars, fixate, world, allpkgs, jobs, joined, ctxDone, run, target, mpc, mi, sem, gerr, workers,
                    ai, infos, allFiles, status, ret, rets >>

\* select { ... case <-ch: ... }: a select with several ready cases takes any
ApplierSelectCh ==
    /\ apc = "select"
    /\ ChReady(ai)
    /\ apc' = "picked"
    /\ UNCHANGED << rvars, cvars, fixate, world, allpkgs, jobs, joined, ctxDone, run, target, mpc, mi, sem, gerr, workers,
                    ai, aerr, infos, allFiles, status, ret, rets >>

\* the applier leaves the body of the loop: next index, or return nil
Advance ==
    /\ ai' = ai + 1
    /\ apc' = IF ai + 1 = NPkgs THEN "returning" ELSE "select"
    /\ aerr' = aerr

\* the applier returns an error
Fail(e) ==
    /\ aerr' = e
    /\ apc' = "returning"
    /\ ai' = ai

\* variant: a failed expansion is passed over
ApplierExpNilContinue ==
    /\ apc = "picked"
    /\ ~expanded[ai]
    /\ Advance
    /\ status' = [status EXCEPT ![ai] = "failed"]
    /\ UNCHANGED << rvars, cvars, fixate, world, allpkgs, jobs, joined, ctxDone, run, target, mpc, mi, sem, gerr, workers,
                    infos, allFiles, ret, rets >>

\* if exp == nil { return fmt.Errorf("expansion of %s failed", pkg) }
ApplierExpNil ==
    /\ apc = "picked"
    /\ ~expanded[ai]
    /\ Fail(Err("expansion failed", ai))
    /\ status' = [status EXCEPT ![ai] = "failed"]
    /\ UNCHANGED << rvars, cvars, fixate, world, allpkgs, jobs, joined, ctxDone, run, target, mpc, mi, sem, gerr, workers,
                    infos, allFiles, ret, rets >>

\* isInstalledPackage or packageInfo returns an error   (lines 738-751)
ApplierReadErr ==
    /\ apc = "picked"
    /\ expanded[ai]
    /\ \/ Fail(Err("isInstalledPackage", ai))
       \/ ~isInstalledPackage(allpkgs[ai]) /\ Fail(Err("packageInfo", ai))
    /\ status' = [status EXCEPT ![ai] = "failed"]
    /\ UNCHANGED << rvars, cvars, fixate, world, allpkgs, jobs, joined, ctxDone, run, target, mpc, mi, sem, gerr, workers,
                    infos, allFiles, ret, rets >>

\* variant: infos[i] is set before the installed check
ApplierSkipInfoFirst ==
    /\ apc = "picked"
    /\ expanded[ai]
    /\ isInstalledPackage(allpkgs[ai])
    /\ Advance
    /\ infos' = [infos EXCEPT ![ai] = PkgPtr(run, ai)]
    /\ status' = [status EXCEPT ![ai] = "skipped"]
    /\ UNCHANGED << rvars, cvars, fixate, world, allpkgs, jobs, joined, ctxDone, run, target, mpc, mi, sem, gerr, workers,
                    allFiles, ret, rets >>

\* if isInstalled { continue }
ApplierSkip ==
    /\ apc = "picked"
    /\ expanded[ai]
    /\ isInstalledPackage(allpkgs[ai])
    /\ Advance
    /\ status' = [status EXCEPT ![ai] = "skipped"]
    /\ UNCHANGED << rvars, cvars, fixate, world, allpkgs, jobs, joined, ctxDone, run, target, mpc, mi, sem, gerr, workers,
                    infos, allFiles, ret, rets >>

\* installAPKFiles / lazilyInstallAPKFiles: the first k headers of the data
\* segment are written to the target, each regular file claimed for pkg
FsAfter(files, k, pkg) ==
    [p \in Paths |-> IF \E j \in 1 .. k : files[j].name = p THEN pkg ELSE fs[p]]
OwnersAfter(files, k, pkg) ==
    [p \in Paths |-> IF \E j \in 1 .. k : files[j].name = p /\ ~files[j].dir
                     THEN pkg ELSE installedFiles[p]]

\* infos[i] = pkgInfo; a.installPackage(...); allFiles[i] = installedFiles
\*   (lines 752-759 and installPackage, lines 1404-1460)
ApplierInstall ==
    /\ apc = "picked"
    /\ expanded[ai]
    /\ ~isInstalledPackage(allpkgs[ai])
    /\ LET pkg == PkgPtr(run, ai)
           files == PkgFiles(allpkgs[ai])
       IN  /\ infos' = [infos EXCEPT ![ai] = pkg]
           /\ \/ \* the file installation fails after k headers
                 \E k \in 0 .. (Len(files) - 1) :
                    /\ fs' = FsAfter(files, k, pkg)
                    /\ installedFiles' = OwnersAfter(files, k, pkg)
                    /\ wrote' = IF k > 0 THEN wrote \cup {pkg} ELSE wrote
                    /\ UNCHANGED << scripts, triggers, allFiles >>
                    /\ Fail(Err("installing", ai))
                    /\ status' = [status EXCEPT ![ai] = "failed"]
              \/ \* updateScriptsTar fails
                 /\ fs' = FsAfter(files, Len(files), pkg)
                 /\ installedFiles' = OwnersAfter(files, Len(files), pkg)
                 /\ wrote' = wrote \cup {pkg}
                 /\ UNCHANGED << scripts, triggers, allFiles >>
                 /\ Fail(Err("installing", ai))
                 /\ status' = [status EXCEPT ![ai] = "failed"]
              \/ \* updateTriggers fails
                 /\ fs' = FsAfter(files, Len(files), pkg)
                 /\ installedFiles' = OwnersAfter(files, Len(files), pkg)
                 /\ wrote' = wrote \cup {pkg}
                 /\ scripts' = scripts \cup {pkg}
                 /\ UNCHANGED << triggers, allFiles >>
                 /\ Fail(Err("installing", ai))
                 /\ status' = [status EXCEPT ![ai] = "failed"]
              \/ \* the package is installed
                 /\ fs' = FsAfter(files, Len(files), pkg)
                 /\ installedFiles' = OwnersAfter(files, Len(files), pkg)
                 /\ wrote' = wrote \cup {pkg}
                 /\ scripts' = scripts \cup {pkg}
                 /\ triggers' = triggers \cup {pkg}
                 /\ allFiles' = [allFiles EXCEPT ![ai] = files]
                 /\ Advance
                 /\ status' = [status EXCEPT ![ai] = "applied"]
    /\ UNCHANGED << rvars, cvars, fixate, world, allpkgs, jobs, joined, ctxDone, run, db, resolved, mpc, mi, sem, gerr,
                    workers, ret, rets >>

\* the applier's function has returned: errgroup records its error and frees its token
ApplierReturn ==
    /\ apc = "returning"
    /\ apc' = "exited"
    /\ gerr' = Recorded(aerr)
    /\ sem' = sem - 1
    /\ UNCHANGED << rvars, cvars, fixate, world, allpkgs, jobs, joined, ctxDone, run, target, mpc, mi, workers, ai, aerr,
                    infos, allFiles, status, ret, rets >>

----------------------------------------------------------------------------
InstallSteps ==
    \/ MainGoApplier
    \/ MainGoWorker
    \/ MainWait
    \/ MainFinalize
    \/ MainResolve
    \/ Cancel
    \/ \E i \in Idx : WorkerExpand(i)
    \/ \E i \in Idx : WorkerClose(i)
    \/ \E i \in Idx : WorkerReturn(i)
    \/ ApplierSelectCtx
    \/ ApplierSelectCh
    \/ ApplierExpNil
    \/ ApplierReadErr
    \/ ApplierSkip
    \/ ApplierInstall
    \/ ApplierReturn

Next ==
    \/ InstallSteps
    \/ NextRun

Spec == Init /\ [][Next]_vars

\* One call of InstallPackages under fair scheduling: every goroutine that
\* can take a step eventually takes one, every expansion and every apply
\* step returns; the caller may cancel the context or not.
InitLive ==
    /\ InitInstall({[i \in Idx |-> IF i % 2 = 0 THEN "a" ELSE "b"]}, PreInstalled)
    /\ jobs = Jobs
    /\ Direct
    /\ NoCalls
    /\ disk = {}
    /\ carg = [c \in Callers |-> [pkg |-> CHOOSE q \in CPkgs : q.url = "u1", cache |-> FALSE]]

\* the steps of the calling goroutine, of the worker of index i, of the applier
MainStep == MainGoApplier \/ MainGoWorker \/ MainWait \/ MainFinalize \/ MainResolve
WorkerStep(i) == WorkerExpand(i) \/ WorkerClose(i) \/ WorkerReturn(i)
ApplierStep ==
    \/ ApplierSelectCtx \/ ApplierSelectCh
    \/ ApplierExpNil \/ ApplierReadErr \/ ApplierSkip \/ ApplierInstall
    \/ ApplierReturn

Fairness ==
    /\ WF_vars(MainStep)
    /\ \A i \in Idx : WF_vars(WorkerStep(i))
    /\ WF_vars(ApplierStep)

SpecLive == InitLive /\ [][InstallSteps]_vars /\ Fairness

----------------------------------------------------------------------------
\* APK.resolveApkDB (lines 343-416), on a model of a.fs

\* The link targets of the inputs.
Targets == {"usr/lib", "/usr/lib", "../usr/lib",
            "usr/lib/apk", "/usr/lib/apk", "../usr/lib/apk", "opt/apk"}

\* variant: the target is compared as it is read
CleanRootedRaw(t) == t

\* path.Clean("/" + target)
CleanRooted(t) ==
    CASE t \in {"usr/lib", "/usr/lib", "../usr/lib"} -> "/usr/lib"
      [] t \in {"usr/lib/apk", "/usr/lib/apk", "../usr/lib/apk"} -> "/usr/lib/apk"
      [] OTHER -> "/opt/apk"

\* a.fs.Readlink(p) == nil and the cleaned target is `want`
LinksTo(node, want) == node.kind = "link" /\ CleanRooted(node.target) = want

\* An entry of /lib/apk: a file, an empty directory or a directory with entries.
Kid(n, k) == [name |-> n, kind |-> k]
KidsOf(kinds) == [i \in 1 .. Len(kinds) |-> Kid(i, kinds[i])]

\* /lib, /lib/apk and the entries of /lib/apk
RootFs == << rlib, rapk, rkids >>

\* resolveApkDB returns r
ResolveReturn(r) ==
    /\ rrets' = Append(rrets, r)
    /\ rpc' = "idle"

\* a.resolveApkDB(ctx) is called
ResolveCall ==
    /\ rpc = "idle"
    /\ Len(rrets) < MaxRuns
    /\ rpc' = "readlinkLib"
    /\ rfs0' = RootFs
    /\ rk' = 1
    /\ UNCHANGED << pvars, cvars, rlib, rapk, rkids, children, rrets >>

\* if target, err := a.fs.Readlink("/lib"); err == nil { ... return nil }
ReadlinkLib ==
    /\ rpc = "readlinkLib"
    /\ IF LinksTo(rlib, "/usr/lib")
       THEN ResolveReturn("ok")
       ELSE rpc' = "readlinkApk" /\ rrets' = rrets
    /\ UNCHANGED << pvars, cvars, rlib, rapk, rkids, children, rk, rfs0 >>

\* if target, err := a.fs.Readlink("/lib/apk"); err == nil { ... return nil }
ReadlinkApk ==
    /\ rpc = "readlinkApk"
    /\ IF LinksTo(rapk, "/usr/lib/apk")
       THEN ResolveReturn("ok")
       ELSE rpc' = "statLib" /\ rrets' = rrets
    /\ UNCHANGED << pvars, cvars, rlib, rapk, rkids, children, rk, rfs0 >>

\* if _, err := a.fs.Stat("lib"); errors.Is(err, fs.ErrNotExist) { a.fs.Mkdir("lib", 0o755) }
StatLib ==
    /\ rpc = "statLib"
    /\ IF rlib = Absent
       THEN \/ rlib' = Dir /\ rpc' = "statApk" /\ rrets' = rrets
            \/ rlib' = rlib /\ ResolveReturn("creating lib")
       ELSE rlib' = rlib /\ rpc' = "statApk" /\ rrets' = rrets
    /\ UNCHANGED << pvars, cvars, rapk, rkids, children, rk, rfs0 >>

\* if d, err := a.fs.Stat("lib/apk"); err == nil { if d.IsDir() { children, err := a.fs.ReadDir("lib/apk") ...
StatApk ==
    /\ rpc = "statApk"
    /\ IF rapk = Dir
       THEN \/ children' = rkids /\ rpc' = "child" /\ rrets' = rrets
            \/ children' = children /\ ResolveReturn("reading /lib/apk")
       ELSE children' = children /\ rpc' = "symlink" /\ rrets' = rrets
    /\ UNCHANGED << pvars, cvars, rlib, rapk, rkids, rk, rfs0 >>

\* a.fs.Remove(path.Join("lib/apk", child.Name())): the entries that are left
Removed(c) == SelectSeq(rkids, LAMBDA e : e.name # c.name)

\* for _, child := range children { ... }   (lines 385-402)
Child ==
    /\ rpc = "child"
    /\ IF rk > Len(children)
       THEN rpc' = "removeApk" /\ UNCHANGED << rrets, rkids, rk >>
       ELSE LET c == children[rk]
            IN  \/ /\ c.kind = "file"
                   /\ ResolveReturn("refusing to replace")
                   /\ UNCHANGED << rkids, rk >>
                \/ /\ c.kind # "file"
                   /\ ResolveReturn("reading child")
                   /\ UNCHANGED << rkids, rk >>
                \/ /\ c.kind = "full"
                   /\ ResolveReturn("refusing to replace")
                   /\ UNCHANGED << rkids, rk >>
                \/ /\ c.kind = "empty"
                   /\ \/ /\ rkids' = Removed(c)
                         /\ rk' = rk + 1
                         /\ UNCHANGED << rpc, rrets >>
                      \/ /\ ResolveReturn("removing child")
                         /\ UNCHANGED << rkids, rk >>
    /\ UNCHANGED << pvars, cvars, rlib, rapk, children, rfs0 >>

\* if err := a.fs.Remove("lib/apk"); err != nil { ... }
RemoveApk ==
    /\ rpc = "removeApk"
    /\ \/ /\ rkids = << >>
          /\ rapk' = Absent
          /\ rpc' = "symlink"
          /\ rrets' = rrets
       \/ /\ rapk' = rapk
          /\ ResolveReturn("removing /lib/apk")
    /\ UNCHANGED << pvars, cvars, rlib, rkids, children, rk, rfs0 >>

\* if err := a.fs.Symlink("../usr/lib/apk", "lib/apk"); err != nil { ... }; return nil
Symlink ==
    /\ rpc = "symlink"
    /\ \/ /\ rapk = Absent
          /\ rapk' = Link("../usr/lib/apk")
          /\ ResolveReturn("ok")
       \/ /\ rapk' = rapk
          /\ ResolveReturn("creating lib/apk symlink")
    /\ UNCHANGED << pvars, cvars, rlib, rkids, children, rk, rfs0 >>

NextResolve ==
    \/ ResolveCall
    \/ ReadlinkLib
    \/ ReadlinkApk
    \/ StatLib
    \/ StatApk
    \/ Child
    \/ RemoveApk
    \/ Symlink

\* The roots resolveApkDB is run on: /lib is absent, a directory, or a symlink
\* to usr/lib; under a directory /lib, /lib/apk is absent, a file, a symlink
\* (one with another target is dangling), or a directory of up to MaxKids
\* entries.
MaxKids == 2
KidKinds == {"file", "empty", "full"}
KidLists == UNION {[1 .. n -> KidKinds] : n \in 0 .. MaxKids}
Roots ==
    {<< Absent, Absent, << >> >>}
    \cup {<< Link(t), Absent, << >> >> : t \in {"usr/lib", "/usr/lib", "../usr/lib"}}
    \cup {<< Dir, n, << >> >> : n \in {Absent, File} \cup {Link(t) : t \in Targets}}
    \cup {<< Dir, Dir, KidsOf(l) >> : l \in KidLists}

InitResolve ==
    /\ \E r \in Roots :
          /\ rlib = r[1]
          /\ rapk = r[2]
          /\ rkids = r[3]
          /\ rfs0 = r
    /\ rpc = "idle"
    /\ children = << >>
    /\ rk = 1
    /\ rrets = << >>
    /\ InstallState({[i \in Idx |-> "a"]}, {{}})
    /\ jobs = Jobs
    /\ Direct
    /\ NoCalls
    /\ disk = {}
    /\ carg = [c \in Callers |-> [pkg |-> CHOOSE q \in CPkgs : q.url = "u1", cache |-> FALSE]]

SpecResolve == InitResolve /\ [][NextResolve]_vars

----------------------------------------------------------------------------
\* APK.ResolveAndCalculateWorld and APK.CalculateWorld (lines 599-653)

\* allpkgs, _, err := a.ResolveWorld(ctx)   (lines 647-650)
WorldResolve ==
    /\ fpc = "calcResolve"
    /\ \/ /\ fpc' = "calcGo"
          /\ UNCHANGED << mpc, ret >>
       \/ /\ fpc' = "returned"
          /\ mpc' = "done"
          /\ ret' = [kind |-> "err", err |-> Err("ResolveWorld", -1), cause |-> FALSE]
    /\ UNCHANGED << rvars, cvars, world, conflicts, ci, allpkgs, jobs, joined, ctxDone, run, target, mi, sem,
                    gerr, workers, applier, rets >>

\* for i, pkg := range allpkgs { g.Go(func() error { ... }) }   (lines 609-621)
WorldGoWorker ==
    /\ fpc = "calcGo"
    /\ CanGo
    /\ sem' = sem + 1
    /\ wpc' = [wpc EXCEPT ![mi] = "expanding"]
    /\ mi' = mi + 1
    /\ fpc' = IF mi + 1 = NPkgs THEN "calcWait" ELSE "calcGo"
    /\ UNCHANGED << rvars, cvars, world, conflicts, ci, allpkgs, jobs, joined, ctxDone, run, target, mpc, gerr,
                    expanded, done, werr, applier, ret, rets >>

\* variant: a finished expansion takes the first free entry of the list
WorldSlotFirstFree(i) == CHOOSE k \in Idx : world[k] = NoWorld /\ \A j \in Idx : j < k => world[j] # NoWorld

\* resolved[i] = ...: the entry the worker of index i assigns
WorldSlot(i) == i

\* expanded, err := a.expandPackage(ctx, pkg); resolved[i] = NewAPKResolved(pkg, expanded)
WorldExpand(i) ==
    /\ wpc[i] = "expanding"
    /\ wpc' = [wpc EXCEPT ![i] = "returning"]
    /\ \/ /\ world' = [world EXCEPT ![WorldSlot(i)] = APKResolved(allpkgs[i], i)]
          /\ werr' = werr
       \/ /\ werr' = [werr EXCEPT ![i] = Err("expanding", i)]
          /\ world' = world
    /\ UNCHANGED << rvars, cvars, conflicts, ci, fpc, allpkgs, jobs, joined, ctxDone, run, target, mpc, mi, sem,
                    gerr, expanded, done, applier, ret, rets >>

\* if err := g.Wait(); err != nil { return nil, ... }; return resolved, nil
WorldWait ==
    /\ fpc = "calcWait"
    /\ AllReturned
    /\ fpc' = "returned"
    /\ mpc' = "done"
    /\ ret' = IF gerr # NoErr THEN withCause(gerr) ELSE [kind |-> "ok", world |-> world]
    /\ joined' = IF ctxDone THEN "cancelled" ELSE "live"
    /\ UNCHANGED << rvars, cvars, world, conflicts, ci, allpkgs, jobs, ctxDone, run, target, mi, sem,
                    gerr, workers, applier, rets >>

WorldSteps ==
    \/ WorldResolve
    \/ WorldGoWorker
    \/ \E i \in Idx : WorldExpand(i)
    \/ \E i \in Idx : WorkerReturn(i)
    \/ WorldWait
    \/ Cancel

\* a call of ResolveAndCalculateWorld
InitWorld ==
    /\ InitInstall(Lists, PreInstalled)
    /\ jobs \in 1 .. Jobs
    /\ conflicts = << >>
    /\ ci = 0
    /\ fpc = "calcResolve"
    /\ NoCalls
    /\ disk = {}
    /\ carg = [c \in Callers |-> [pkg |-> CHOOSE q \in CPkgs : q.url = "u1", cache |-> FALSE]]

SpecWorld == InitWorld /\ [][WorldSteps]_vars

\* a call of InstallPackages or a call of ResolveAndCalculateWorld
InitGroup == InitLive \/ InitWorld

SpecGroup == InitGroup /\ [][InstallSteps \/ WorldSteps]_vars

----------------------------------------------------------------------------
\* APK.FixateWorld (lines 656-699)

\* What ResolveWorld can return as conflicts.
ConflictLists == {<< >>, << "a" >>, << "b" >>, << "b", "a" >>}

\* allpkgs, conflicts, err := a.ResolveWorld(ctx)   (lines 671-674)
FixateResolveWorld ==
    /\ fpc = "resolveWorld"
    /\ \/ /\ fpc' = "conflicts"
          /\ UNCHANGED << mpc, ret >>
       \/ /\ fpc' = "returned"
          /\ mpc' = "done"
          /\ ret' = [kind |-> "err", err |-> Err("ResolveWorld", -1), cause |-> FALSE]
    /\ UNCHANGED << rvars, cvars, world, conflicts, ci, allpkgs, jobs, joined, ctxDone, run, target, mi, sem, gerr,
                    workers, applier, rets >>

\* variant: an installed conflict name does not stop the call
ConflictBlocksNever(n) == FALSE

\* if isInstalled { return nil, fmt.Errorf("cannot install due to conflict ...") }
ConflictBlocks(n) == isInstalledPackage(n)

\* one iteration of: for _, pkg := range conflicts { ... }   (lines 683-691)
FixateConflict ==
    /\ fpc = "conflicts"
    /\ ci < Len(conflicts)
    /\ \/ /\ fpc' = "returned"
          /\ mpc' = "done"
          /\ ret' = [kind |-> "err", err |-> Err("isInstalledPackage", ci), cause |-> FALSE]
          /\ ci' = ci
       \/ /\ ConflictBlocks(conflicts[ci + 1])
          /\ fpc' = "returned"
          /\ mpc' = "done"
          /\ ret' = [kind |-> "err", err |-> Err("conflict", ci), cause |-> FALSE]
          /\ ci' = ci
       \/ /\ ~ConflictBlocks(conflicts[ci + 1])
          /\ ci' = ci + 1
          /\ UNCHANGED << fpc, mpc, ret >>
    /\ UNCHANGED << rvars, cvars, world, conflicts, allpkgs, jobs, joined, ctxDone, run, target, mi, sem, gerr,
                    workers, applier, rets >>

\* return a.InstallPackages(ctx, sourceDateEpoch, allInstPkgs)   (lines 692-698)
FixateInstall ==
    /\ fpc = "conflicts"
    /\ ci = Len(conflicts)
    /\ fpc' = "called"
    /\ UNCHANGED << rvars, cvars, world, conflicts, ci, allpkgs, jobs, joined, ctxDone, run, target, mpc, mi, sem,
                    gerr, workers, applier, ret, rets >>

NextFixate ==
    \/ FixateResolveWorld
    \/ FixateConflict
    \/ FixateInstall
    \/ InstallSteps

\* a call of FixateWorld: the resolver hands over an ordered list and the
\* conflict names
InitFixate ==
    /\ InitInstall({[i \in Idx |-> IF i % 2 = 0 THEN "b" ELSE "a"]}, PreInstalled)
    /\ jobs = Jobs
    /\ conflicts \in ConflictLists
    /\ ci = 0
    /\ fpc = "resolveWorld"
    /\ NoCalls
    /\ disk = {}
    /\ carg = [c \in Callers |-> [pkg |-> CHOOSE q \in CPkgs : q.url = "u1", cache |-> FALSE]]

SpecFixate == InitFixate /\ [][NextFixate]_vars

----------------------------------------------------------------------------
\* APK.expandPackage, apkCache.get and expandPackage (lines 1225-1301)

Pkg(c) == carg[c].pkg
Url(c) == carg[c].pkg.url
\* a.cache != nil
HasCache(c) == carg[c].cache

\* variant: the global cache is bypassed whatever a.cache is
UsesGlobalCacheNever(c) == FALSE

\* APK.expandPackage: if a.cache == nil { return expandPackage(ctx, a, pkg) }
UsesGlobalCache(c) == HasCache(c)

\* variant: the lookup is made whatever a.cache is
StartPcLookup(c) == "lookupCtl"

\* expandPackage: if a.cache != nil { cachedPackage ... } else FetchPackage
StartPc(c) == IF HasCache(c) THEN "lookupCtl" ELSE "fetch"

Do(c, op) == did' = [did EXCEPT ![c] = @ \cup {op}]
Goto(c, l) == cpc' = [cpc EXCEPT ![c] = l]

\* expandPackage returns r: to the function passed to once.Do, or to the caller
Return(c, r) ==
    IF "get" \in did[c]
    THEN /\ cexp' = [cexp EXCEPT ![c] = r]
         /\ Goto(c, "store")
         /\ cret' = cret
    ELSE /\ cret' = [cret EXCEPT ![c] = r]
         /\ Goto(c, "ret")
         /\ cexp' = cexp

\* a.expandPackage(ctx, pkg); in get: once, _ := c.onces.LoadOrStore(u, &sync.Once{})
Call(c) ==
    /\ cpc[c] = "call"
    /\ IF UsesGlobalCache(c)
       THEN /\ onces' = [onces EXCEPT ![Url(c)] = IF @ = "absent" THEN "new" ELSE @]
            /\ Do(c, "get")
            /\ Goto(c, "once")
       ELSE /\ onces' = onces
            /\ did' = did
            /\ Goto(c, StartPc(c))
    /\ UNCHANGED << rvars, pvars, resps, disk, carg, before, cexp, csigned, cret >>

\* variant: a stored error is not kept, the next caller runs the function again
CanEnterOnceAfterError(u) ==
    onces[u] = "new" \/ (onces[u] = "done" /\ resps[u].kind = "err")

\* variant: a caller that finds the function running runs it too
CanEnterOnceRunning(u) == onces[u] \in {"new", "running"}

\* sync.Once.Do: the caller that finds the Once unused runs the function
CanEnterOnce(u) == onces[u] = "new"

\* variant: Do returns to a caller while another one is running the function
OncePassedRunning(u) == onces[u] \in {"running", "done"}

\* sync.Once.Do returns to a caller that does not run the function once the
\* run has finished
OncePassed(u) == onces[u] = "done"

\* once.(*sync.Once).Do(func() { ... }): run the function, or return once it
\* has been run; a caller blocks while another one is running it
OnceDo(c) ==
    /\ cpc[c] = "once"
    /\ \/ /\ CanEnterOnce(Url(c))
          /\ onces' = [onces EXCEPT ![Url(c)] = "running"]
          /\ Do(c, "work")
          /\ Goto(c, StartPc(c))
       \/ /\ OncePassed(Url(c))
          /\ Goto(c, "load")
          /\ UNCHANGED << onces, did >>
    /\ UNCHANGED << rvars, pvars, resps, disk, carg, before, cexp, csigned, cret >>

\* chk has the prefix "Q1" and base64.StdEncoding.DecodeString(chk[2:]) succeeds
Decodable(q) == q.tag = "Q1" /\ q.b64

\* variant: the control file is looked for under the datahash
CtlFoundByDat(q) == {f \in disk : f.hash = q.dat /\ f.ext = "ctl.tar.gz"}

\* the control file cachedPackage looks for: hex(checksum) + ".ctl.tar.gz"
CtlFound(q) == {f \in disk : f.hash = q.sum /\ f.ext = "ctl.tar.gz"}

\* variant: the result of the lookup is not used
AfterLookupFetch(hit) == "mkdir"

\* variant: the error of the lookup ends the call
AfterLookupStop(hit) == IF hit THEN "return" ELSE "ret"

\* exp, err := a.cachedPackage(...); if err == nil { return exp, nil }
AfterLookup(hit) == IF hit THEN "return" ELSE "mkdir"

\* cachedPackage returns the error of reading or indexing a file
ReadFailed(c) == did' = [did EXCEPT ![c] = @ \cup {"lookup", "read failed"}]

\* cacheDirForPackage; cachedPackage up to exp.ControlData()   (lines 1266, 1120-1146)
LookupCtl(c) ==
    /\ cpc[c] = "lookupCtl"
    /\ \/ /\ Return(c, Res("err", c, "cacheDirForPackage"))
          /\ did' = did
       \/ /\ ~Decodable(Pkg(c)) \/ CtlFound(Pkg(c)) = {}
          /\ Do(c, "lookup")
          /\ Goto(c, AfterLookup(FALSE))
          /\ UNCHANGED << cexp, cret >>
       \/ /\ Decodable(Pkg(c)) /\ CtlFound(Pkg(c)) # {}
          /\ \/ Goto(c, "lookupSig") /\ Do(c, "lookup")
             \/ Goto(c, AfterLookup(FALSE)) /\ ReadFailed(c)   \* exp.ControlData(), tarfs.New
          /\ UNCHANGED << cexp, cret >>
    /\ UNCHANGED << rvars, pvars, onces, resps, disk, carg, before, csigned >>

\* sf, err := os.Stat(sig); if err == nil { exp.Signed = true ... }
LookupSig(c) ==
    /\ cpc[c] = "lookupSig"
    /\ \/ /\ csigned' = [csigned EXCEPT ![c] = SigFile(Pkg(c).sum) \in disk]
          /\ did' = did
          /\ Goto(c, "lookupDat")
       \/ /\ SigFile(Pkg(c).sum) \in disk     \* os.ReadFile(sig) fails
          /\ csigned' = csigned
          /\ ReadFailed(c)
          /\ Goto(c, AfterLookup(FALSE))
    /\ UNCHANGED << rvars, pvars, onces, resps, disk, carg, before, cexp, cret >>

\* variant: the data file is not looked for
DatStatSkipped(ctl) == TRUE

\* df, err := os.Stat(dat), dat named by the datahash of the control file
DatStat(ctl) == DatFile(ctl.datahash) \in disk

\* cachedPackage from a.datahash(f) on   (lines 1170-1209)
LookupDat(c) ==
    /\ cpc[c] = "lookupDat"
    /\ LET ctl == CHOOSE f \in CtlFound(Pkg(c)) : TRUE
           hit == Res("exp", c, IF csigned[c] THEN "cached, signed" ELSE "cached")
       IN  \/ /\ DatStat(ctl)
              /\ IF AfterLookup(TRUE) = "return"
                 THEN Return(c, hit) /\ Do(c, "hit")
                 ELSE Goto(c, AfterLookup(TRUE)) /\ Do(c, "hit") /\ UNCHANGED << cexp, cret >>
           \/ /\ ~DatStat(ctl)                       \* os.Stat(dat) fails
              /\ Goto(c, AfterLookup(FALSE))
              /\ UNCHANGED << cexp, cret, did >>
           \/ /\ Goto(c, AfterLookup(FALSE))   \* a file of the entry cannot be read
              /\ ReadFailed(c)
              /\ UNCHANGED << cexp, cret >>
    /\ UNCHANGED << rvars, pvars, onces, resps, disk, carg, before, csigned >>

\* os.MkdirAll(cacheDir, 0o755)
Mkdir(c) ==
    /\ cpc[c] = "mkdir"
    /\ Do(c, "mkdir")
    /\ \/ Goto(c, "fetch") /\ UNCHANGED << cexp, cret >>
       \/ Return(c, Res("err", c, "MkdirAll"))
    /\ UNCHANGED << rvars, pvars, onces, resps, disk, carg, before, csigned >>

\* rc, err := a.FetchPackage(ctx, pkg)
Fetch(c) ==
    /\ cpc[c] = "fetch"
    /\ Do(c, "fetch")
    /\ \/ Goto(c, "expand") /\ UNCHANGED << cexp, cret >>
       \/ Return(c, Res("err", c, "FetchPackage"))
    /\ UNCHANGED << rvars, pvars, onces, resps, disk, carg, before, csigned >>

\* exp, err := expandapk.ExpandApk(ctx, rc, cacheDir); if a.cache == nil { return exp, nil }
Expand(c) ==
    /\ cpc[c] = "expand"
    /\ Do(c, "expand")
    /\ \/ Return(c, Res("err", c, "ExpandApk"))
       \/ /\ ~HasCache(c)
          /\ Return(c, Res("exp", c, "temporary"))
       \/ /\ HasCache(c)
          /\ Goto(c, "adoptCtl")
          /\ UNCHANGED << cexp, cret >>
    /\ UNCHANGED << rvars, pvars, onces, resps, disk, carg, before, csigned >>

\* variant: the file is linked into the target root, not the cache directory
AdvertiseInRoot(dst) == disk' = disk /\ fs' = [p \in Paths |-> OldPkg]

\* paths.AdvertiseCachedFile(src, dst): the temporary file src is linked to
\* dst, a path of the cache directory
AdvertiseCachedFile(dst) == disk' = disk \cup {dst} /\ fs' = fs

\* variant: a failed adoption hands back the handle of the expansion
AdoptFailedKeepsHandle(c, e) == Res("exp", c, "temporary")

\* cachePackage: if err != nil { return nil, err }
AdoptFailed(c, e) == Res("err", c, e)

\* one step of cachePackage: the file is advertised and the next step is
\* taken up, or the step fails and cachePackage returns the error
Adopt(c, from, file, to) ==
    /\ cpc[c] = from
    /\ Do(c, "adopt")
    /\ \/ /\ AdvertiseCachedFile(file)
          /\ Goto(c, to)
          /\ UNCHANGED << cexp, cret >>
       \/ /\ UNCHANGED << disk, fs >>
          /\ Return(c, AdoptFailed(c, "AdvertiseCachedFile"))
    /\ UNCHANGED << rvars, nofs, onces, resps, carg, before, csigned >>

\* ctlDst := filepath.Join(cacheDir, ctlHex+".ctl.tar.gz")   (lines 1057-1064)
AdoptCtl(c) ==
    Adopt(c, "adoptCtl", CtlFile(Pkg(c).ctl, Pkg(c).dat),
          IF Pkg(c).signed THEN "adoptSig" ELSE "adoptDat")

\* if exp.SignatureFile != "" { sigDst := ... ".sig.tar.gz" }   (lines 1066-1074)
AdoptSig(c) == Adopt(c, "adoptSig", SigFile(Pkg(c).ctl), "adoptDat")

\* variant: the data file is named by the control hash
DatHexOfControl(q) == q.ctl

\* datHex := hex.EncodeToString(exp.PackageHash)
DatHex(q) == q.dat

\* datDst := filepath.Join(cacheDir, datHex+".dat.tar.gz")   (lines 1076-1083)
AdoptDat(c) == Adopt(c, "adoptDat", DatFile(DatHex(Pkg(c))), "adoptTar")

\* exp.TarFS.Close(); tarDst := ...; the tarfs is set up again   (lines 1085-1113)
AdoptTar(c) ==
    /\ cpc[c] = "adoptTar"
    /\ \/ /\ UNCHANGED << disk, fs >>
          /\ Return(c, AdoptFailed(c, "closing tarfs"))
       \/ /\ AdvertiseCachedFile(TarFile(Pkg(c).dat))
          /\ \/ Return(c, Res("exp", c, "adopted"))
             \/ Return(c, AdoptFailed(c, "tarfs.New"))
    /\ UNCHANGED << rvars, nofs, onces, resps, carg, before, csigned, did >>

\* c.resps.Store(u, apkResult{exp: exp, err: err})
Store(c) ==
    /\ cpc[c] = "store"
    /\ resps' = [resps EXCEPT ![Url(c)] = cexp[c]]
    /\ Goto(c, "onceDone")
    /\ UNCHANGED << rvars, pvars, onces, disk, carg, before, cexp, csigned, cret, did >>

\* the function passed to once.Do has returned: the Once is done
OnceDone(c) ==
    /\ cpc[c] = "onceDone"
    /\ onces' = [onces EXCEPT ![Url(c)] = "done"]
    /\ Goto(c, "load")
    /\ UNCHANGED << rvars, pvars, resps, disk, carg, before, cexp, csigned, cret, did >>

\* v, ok := c.resps.Load(u); if !ok { panic(...) }; return result.exp, result.err
Load(c) ==
    /\ cpc[c] = "load"
    /\ cret' = [cret EXCEPT ![c] = IF resps[Url(c)] = NoRes
                                   THEN Res("panic", c, "did not see apk after writing it")
                                   ELSE resps[Url(c)]]
    /\ Goto(c, "ret")
    /\ UNCHANGED << rvars, pvars, onces, resps, disk, carg, before, cexp, csigned, did >>

NextCache ==
    \/ \E c \in Callers : Call(c)
    \/ \E c \in Callers : OnceDo(c)
    \/ \E c \in Callers : LookupCtl(c)
    \/ \E c \in Callers : LookupSig(c)
    \/ \E c \in Callers : LookupDat(c)
    \/ \E c \in Callers : Mkdir(c)
    \/ \E c \in Callers : Fetch(c)
    \/ \E c \in Callers : Expand(c)
    \/ \E c \in Callers : AdoptCtl(c)
    \/ \E c \in Callers : AdoptSig(c)
    \/ \E c \in Callers : AdoptDat(c)
    \/ \E c \in Callers : AdoptTar(c)
    \/ \E c \in Callers : Store(c)
    \/ \E c \in Callers : OnceDone(c)
    \/ \E c \in Callers : Load(c)

\* concurrent calls of expandPackage in one process, on a given cache directory
InitCache ==
    /\ InitInstall({[i \in Idx |-> "a"]}, {{}})
    /\ jobs = Jobs
    /\ Direct
    /\ NoCalls
    /\ disk \in InitialDisks
    /\ carg \in [Callers -> [pkg : CPkgs, cache : BOOLEAN]]

SpecCache == InitCache /\ [][NextCache]_vars

\* calls of expandPackage with a cache directory: one for any package of any
\* index, the others for the archive of u1 by its second URL
InitStore ==
    /\ InitInstall({[i \in Idx |-> "a"]}, {{}})
    /\ jobs = Jobs
    /\ Direct
    /\ NoCalls
    /\ disk \in BrokenDisks
    /\ carg \in [Callers -> [pkg : AnyPkgs, cache : {TRUE}]]
    /\ \A c \in Callers : c > 1 => carg[c].pkg.url = "u3"

SpecStore == InitStore /\ [][NextCache]_vars

\* var globalApkCache = &apkCache{...}: the process has ended, with every call
\* returned, and the same calls are made in a new process: the dedup map is
\* empty, the handles are gone, the cache directory is as it was left
Restart ==
    /\ \A c \in Callers : cpc[c] = "ret"
    /\ before = [c \in Callers |-> NoRes]
    /\ before' = cret
    /\ onces' = [u \in URLs |-> "absent"]
    /\ resps' = [u \in URLs |-> NoRes]
    /\ cpc' = [c \in Callers |-> IF "get" \in did[c] THEN "call" ELSE "ret"]
    /\ cexp' = [c \in Callers |-> NoRes]
    /\ csigned' = [c \in Callers |-> FALSE]
    /\ cret' = [c \in Callers |-> NoRes]
    /\ did' = [c \in Callers |-> {}]
    /\ UNCHANGED << rvars, pvars, disk, carg >>

\* Two calls with a cache directory for one archive: the first behind u1 with
\* its own index entry or behind u4 with a stale one, the second behind the
\* mirror u3.  The cache directory is empty, or holds an entry without its
\* data file.
InitRuns ==
    /\ InitInstall({[i \in Idx |-> "a"]}, {{}})
    /\ jobs = Jobs
    /\ Direct
    /\ onces = [u \in URLs |-> "absent"]
    /\ resps = [u \in URLs |-> NoRes]
    /\ cpc = [c \in Callers |-> IF c <= 2 THEN "call" ELSE "ret"]
    /\ cexp = [c \in Callers |-> NoRes]
    /\ csigned = [c \in Callers |-> FALSE]
    /\ cret = [c \in Callers |-> NoRes]
    /\ did = [c \in Callers |-> {}]
    /\ before = [c \in Callers |-> NoRes]
    /\ disk \in {{}, {CtlFile("h1", "d1"), SigFile("h1")}}
    /\ carg \in [Callers -> [pkg : {q \in AnyPkgs : q.url \in {"u1", "u3", "u4"}},
                             cache : {TRUE}]]
    /\ carg[1].pkg.url # "u3"
    /\ \A c \in Callers : c > 1 => carg[c].pkg.url = "u3"

\* Calls of apkCache.get for one URL, u3, by callers whose index entries give
\* it the checksum of the archive or a stale one; the cache directory is
\* empty or holds the entry of the archive.
InitSlots ==
    /\ InitInstall({[i \in Idx |-> "a"]}, {{}})
    /\ jobs = Jobs
    /\ Direct
    /\ NoCalls
    /\ disk \in {{}, Entry(APkg("u3", "Q1", TRUE, "h1", "h1", "d1", TRUE))}
    /\ carg \in [Callers -> [pkg : {APkg("u3", "Q1", TRUE, "h1", "h1", "d1", TRUE),
                                    APkg("u3", "Q1", TRUE, "h9", "h1", "d1", TRUE)},
                             cache : {TRUE}]]

SpecSlots == InitSlots /\ [][NextCache]_vars

\* two runs of a process, one after the other, on one cache directory
SpecRuns == InitRuns /\ [][NextCache \/ Restart]_vars

----------------------------------------------------------------------------
\* Properties of expandPackage and apkCache

\* the calls for url u made with (cached = TRUE) or without a cache directory
CallsOf(u, cached) == {c \in Callers : Url(c) = u /\ HasCache(c) = cached}
Fetchers(S) == {c \in S : "fetch" \in did[c]}
Returned(c) == cpc[c] = "ret"

Getters(u) == {c \in Callers : Url(c) = u /\ "get" \in did[c]}
Runners(u) == {c \in Getters(u) : "work" \in did[c]}

\* C4: for every url the function passed to once.Do is run by at most one
\* call of get; a call of get is past once.Do only when that run has stored
\* its result and finished; and every call of get, the running one included,
\* returns the stored result.
C4_ExactlyOnce ==
    \A u \in URLs :
       /\ Cardinality(Runners(u)) <= 1
       /\ \A c \in Getters(u) :
             cpc[c] \in {"load", "ret"} =>
                /\ onces[u] = "done"
                /\ resps[u] # NoRes
                /\ \E r \in Runners(u) : cpc[r] \in {"load", "ret"} /\ resps[u] = cexp[r]
       /\ \A c \in Getters(u) : Returned(c) => cret[c] = resps[u]

\* C4 (witness): two calls of get for one url have returned, one of them
\* having run the function.
C4_Witness ==
    \E c1, c2 \in Callers :
       /\ c1 # c2 /\ Url(c1) = Url(c2)
       /\ c1 \in Runners(Url(c1)) /\ c2 \in Getters(Url(c1)) \ Runners(Url(c1))
       /\ Returned(c1) /\ Returned(c2)
       /\ cret[c2].by = c1

\* C5: a call whose cache lookup is a hit creates no directory, fetches
\* nothing, expands nothing and adopts nothing, leaves the cache directory
\* as it is, and returns the handle cachedPackage built.
C5_HitIsFastPath ==
    \A c \in Callers :
       "hit" \in did[c] =>
          /\ HasCache(c)
          /\ did[c] \cap {"mkdir", "fetch", "expand", "adopt"} = {}
          /\ cpc[c] \in {"store", "onceDone", "load", "ret"}
          /\ cexp[c].kind = "exp" /\ cexp[c].by = c
          /\ cexp[c].what \in {"cached", "cached, signed"}
          /\ Returned(c) => cret[c] = cexp[c]

\* C5 (witness): a call has returned the handle of a cache hit.
C5_Witness ==
    \E c \in Callers :
       /\ "hit" \in did[c]
       /\ Returned(c)
       /\ cret[c].what = "cached, signed"

----------------------------------------------------------------------------
\* Properties of the install pipeline

Consumed(i) == status[i] \in {"applied", "skipped"}

\* the paths of a header list
PathsOf(files) == {files[k].name : k \in 1 .. Len(files)}

\* the file list persisted in the installed database for pkg
DbEntries(pkg) == {k \in 1 .. Len(db) : db[k].pkg = pkg}

\* C1: the applier takes up index i only after done[i] is closed and after
\* every index below i was applied or skipped, and has touched no index
\* above the one it is at: apply steps happen in increasing index order.
C1_ApplyInOrder ==
    /\ apc = "picked" => done[ai]
    /\ \A i \in Idx :
          status[i] # "pending" => /\ done[i]
                                   /\ i <= ai
                                   /\ \A j \in Idx : j < i => Consumed(j)
    /\ \A i \in Idx : i > ai => status[i] = "pending"

\* C1 (witness): index 0 is applied while the expansion of index 1 has not
\* finished, and the expansion of index 2 finished before that of index 1.
C1_Witness ==
    /\ status[0] = "applied"
    /\ ~done[1]
    /\ done[2]
    /\ status[2] = "pending"

\* the expansions that failed / the only steps that failed are expansions
FailedExpansions == {i \in Idx : wpc[i] \in {"closing", "returning", "exited"} /\ ~expanded[i]}
OnlyExpansionFailed(k) ==
    /\ FailedExpansions = {k}
    /\ aerr \in {NoErr, Err("expansion failed", k)}

\* the apply step of index i was carried out in full
FullyApplied(i) ==
    /\ status[i] = "applied"
    /\ infos[i] = PkgPtr(run, i)
    /\ allFiles[i] = PkgFiles(allpkgs[i])
    /\ \A p \in PathsOf(PkgFiles(allpkgs[i])) : fs[p] # NilPkg
    /\ {infos[i]} \subseteq (wrote \cap scripts \cap triggers)

\* C2: when the call has returned and the expansion of index k is the only
\* step that failed, every index below k is fully applied (or was skipped
\* because its package was installed already) and no index above k is applied.
C2_PartialApplication ==
    \A k \in Idx :
       (mpc = "done" /\ OnlyExpansionFailed(k)) =>
          /\ ret.kind = "err"
          /\ \A j \in Idx : j < k =>
                \/ FullyApplied(j)
                \/ status[j] = "skipped" /\ isInstalledPackage(allpkgs[j])
          /\ \A j \in Idx : j > k =>
                /\ status[j] = "pending"
                /\ PkgPtr(run, j) \notin (wrote \cup scripts \cup triggers)

\* C2 (witness): the expansion of index 1 failed, index 0 is applied, the
\* expansion of index 2 succeeded and the call has returned.
C2_Witness ==
    /\ mpc = "done"
    /\ OnlyExpansionFailed(1)
    /\ status[0] = "applied"
    /\ expanded[2]

\* C6: an index skipped as already installed leaves no trace: no file of the
\* target, no entry of scripts.tar or of the triggers, no infos entry and so
\* no database entry; and a call repeated after a successful one skips every
\* index it reaches, so nothing is written to the target by it.
C6_SkipWritesNothing ==
    /\ \A i \in Idx :
          status[i] = "skipped" =>
             /\ infos[i] = NilPkg
             /\ allFiles[i] = << >>
             /\ PkgPtr(run, i) \notin (wrote \cup scripts \cup triggers)
             /\ \A p \in Paths : fs[p] # PkgPtr(run, i) /\ installedFiles[p] # PkgPtr(run, i)
             /\ DbEntries(PkgPtr(run, i)) = {}
    /\ run > 1 =>
          /\ \A i \in Idx : status[i] \notin {"applied"} /\ infos[i] = NilPkg
          /\ \A q \in (wrote \cup scripts \cup triggers) : q.run = 1
          /\ \A k \in 1 .. Len(db) : db[k].pkg.run <= 1

\* C6 (witness): the second call has returned successfully, having skipped
\* every index, on a target the first call wrote to.
C6_Witness ==
    /\ run = 2
    /\ mpc = "done"
    /\ ret.kind = "ok"
    /\ \A i \in Idx : status[i] = "skipped"
    /\ wrote # {}

\* the identities (package names) of a returned list; "" for a nil entry
Identities(l) == [i \in Idx |-> IF l[i] = NilPkg THEN "" ELSE allpkgs[i]]

\* C7 (as claimed): a second successful call with the same list on the same
\* target returns the installed-package identities the first call returned.
C7_SameIdentities ==
    (run = 2 /\ mpc = "done" /\ ret.kind = "ok") =>
       Identities(ret.infos) = Identities(rets[1].infos)

\* the indices applied in this call that carry path p as a directory / as a file
Installers(p, isDir) ==
    {i \in Idx : /\ status[i] = "applied"
                 /\ \E k \in 1 .. Len(PkgFiles(allpkgs[i])) :
                       /\ PkgFiles(allpkgs[i])[k].name = p
                       /\ PkgFiles(allpkgs[i])[k].dir = isDir}
Highest(S) == CHOOSE i \in S : \A j \in S : j <= i
Persisted(i) == UNION {PathsOf(db[k].files) : k \in DbEntries(PkgPtr(run, i))}

\* C8: after a successful batch every non-directory path installed by the
\* batch is owned, in a.installedFiles, by the package of the highest index
\* that installed it; that package's database entry lists the path and the
\* entry of every earlier installer does not; a directory is listed in the
\* entry of every package that installed it.
C8_LastWriterOwns ==
    (mpc = "done" /\ ret.kind = "ok") =>
       /\ \A i \in Idx : status[i] = "applied" => Cardinality(DbEntries(PkgPtr(run, i))) = 1
       /\ \A p \in Paths :
             /\ Installers(p, FALSE) # {} =>
                   LET h == Highest(Installers(p, FALSE))
                   IN  /\ installedFiles[p] = PkgPtr(run, h)
                       /\ p \in Persisted(h)
                       /\ \A i \in Installers(p, FALSE) \ {h} : p \notin Persisted(i)
             /\ \A i \in Installers(p, TRUE) : p \in Persisted(i)

\* C8 (witness): a successful batch in which two indices installed the file
\* /f and the directory /d.
C8_Witness ==
    /\ mpc = "done"
    /\ ret.kind = "ok"
    /\ Cardinality(Installers("/f", FALSE)) >= 2
    /\ Cardinality(Installers("/d", TRUE)) >= 2

\* C9 (as claimed): once a task of the group has returned an error, the
\* applier starts no further apply step and no expansion is started with a
\* context that is still live.
C9_FirstErrorCancels ==
    [][ gerr # NoErr =>
          /\ ~(apc = "select" /\ apc' = "picked")
          /\ \A i \in Idx : ~(wpc[i] = "idle" /\ wpc'[i] = "running" /\ ~ctxDone) ]_vars

\* C10 (as claimed): once the caller's context is cancelled, the applier
\* does not go on to the body of the loop, also when done[i] is closed.
C10_CancelStopsApplier ==
    [][ (ctxDone /\ apc = "select") => apc' # "picked" ]_vars

\* the expansion workers that were started and have not returned
InFlight == {i \in Idx : wpc[i] \in {"running", "closing", "returning"}}

\* C11 (as claimed): when the context is cancelled while expansion workers
\* are in flight and the applier has returned, the call can return: the join
\* of the calling goroutine does not wait for the workers to finish.
C11_CancelReturnsWithoutWorkers ==
    (ctxDone /\ mpc = "wait" /\ apc = "exited" /\ InFlight # {}) => ENABLED MainWait

\* a conflict name was installed on the target before the call
ConflictInstalled ==
    \E k \in 1 .. Len(conflicts) :
       \E j \in 1 .. Len(db) : db[j].name = conflicts[k] /\ db[j].pkg = OldPkg

\* no step of InstallPackages was taken and the target is as it was
NothingInstalled ==
    /\ sem = 0 /\ gerr = NoErr
    /\ \A i \in Idx : wpc[i] = "idle" /\ ~expanded[i] /\ ~done[i] /\ status[i] = "pending"
    /\ apc = "idle"
    /\ wrote = {} /\ scripts = {} /\ triggers = {} /\ resolved = 0
    /\ \A p \in Paths : fs[p] \in {NilPkg, OldPkg} /\ installedFiles[p] = NilPkg
    /\ \A j \in 1 .. Len(db) : db[j].pkg = OldPkg

\* C12: in a call of FixateWorld whose conflict names include an installed
\* package, InstallPackages is never invoked: nothing is expanded or applied,
\* the target filesystem, the installed database and a.installedFiles stay as
\* they were, and once the conflict loop is over the call has failed.
C12_ConflictFailsFirst ==
    (fpc # "direct" /\ ConflictInstalled) =>
       /\ fpc # "called"
       /\ NothingInstalled
       /\ fpc = "returned" => (mpc = "done" /\ ret.kind = "err")

\* C12 (witness): FixateWorld has returned the conflict error for the second
\* conflict name, the first one not being installed.
C12_Witness ==
    /\ fpc = "returned"
    /\ ConflictInstalled
    /\ ret = [kind |-> "err", err |-> Err("conflict", 1), cause |-> FALSE]

\* resolveApkDB is about to run, or has run, in this call
ResolveReached ==
    \/ mpc = "resolve"
    \/ mpc = "done" /\ ret.kind = "ok"
    \/ mpc = "done" /\ ret.kind = "err" /\ ret.err.kind = "resolveApkDB"

\* every package applied in this call has its entry in the installed database
AppendsDone ==
    \A i \in Idx : infos[i] # NilPkg => Cardinality(DbEntries(infos[i])) = 1

\* C13: resolveApkDB runs only when every task of the group has returned
\* without an error, every index was applied or skipped, and every database
\* append of the finalization loop was made; a call that returns any other
\* error has not run it.
C13_ResolveAfterSuccess ==
    /\ ResolveReached =>
          /\ AllReturned
          /\ gerr = NoErr /\ aerr = NoErr /\ \A i \in Idx : werr[i] = NoErr
          /\ \A i \in Idx : Consumed(i)
          /\ AppendsDone
    /\ resolved = IF mpc = "done" /\ ret.kind = "ok" THEN run ELSE run - 1

\* C13 (witness): a call that applied a package has returned after
\* resolveApkDB.
C13_Witness ==
    /\ mpc = "done"
    /\ ret.kind = "ok"
    /\ resolved = 1
    /\ \E i \in Idx : status[i] = "applied"

\* C14: a step of expandPackage, and a step of an expansion worker, leaves
\* the target as it is: a.fs, scripts.tar, the triggers, a.installedFiles and
\* the installed database; what expansion writes is in the cache directory.
C14_ExpansionLeavesTarget ==
    [][ (cpc' # cpc \/ wpc' # wpc) =>
           UNCHANGED << fs, scripts, triggers, installedFiles, db >> ]_vars

\* C14 (witness): a call has fetched, expanded and adopted its package: the
\* cache directory holds its entry; and another returned a temporary handle.
C14_Witness ==
    \E c1, c2 \in Callers :
       /\ cret[c1] = Res("exp", c1, "adopted")
       /\ Entry(Pkg(c1)) \subseteq disk
       /\ cret[c2] = Res("exp", c2, "temporary")

\* what an apply step writes / no task of the group is left
TargetFiles == << fs, scripts, triggers, installedFiles >>
Quiet == apc = "exited" /\ \A i \in Idx : wpc[i] = "exited"

\* C15: a step that writes a.fs, scripts.tar, the triggers or
\* a.installedFiles is a step of the applier at the index it has picked (no
\* worker and not the calling goroutine moves in it); a step that appends to
\* the installed database is a step of the finalization loop, taken when the
\* applier and every worker have returned; and the calling goroutine is in
\* the finalization loop or past it only then.
C15_SingleWriter ==
    [][ /\ (TargetFiles' # TargetFiles) =>
              /\ apc = "picked" /\ expanded[ai]
              /\ wpc' = wpc /\ mpc' = mpc /\ db' = db
        /\ (db' # db) =>
              /\ mpc = "finalize" /\ Quiet /\ AllReturned
              /\ TargetFiles' = TargetFiles /\ apc' = apc /\ wpc' = wpc
        /\ (mpc' \in {"finalize", "resolve"}) => Quiet' ]_vars

\* C15 (witness): the finalization loop has appended an entry of this call
\* after two apply steps.
C15_Witness ==
    /\ mpc = "finalize"
    /\ \E i \in Idx : DbEntries(PkgPtr(run, i)) # {}
    /\ Cardinality({i \in Idx : status[i] = "applied"}) >= 2

\* the declared checksum of q is the hash of the control segment of its archive
Consistent(q) == Decodable(q) /\ q.sum = q.ctl

\* the files cachedPackage looks for are in the cache directory
LookupFinds(q) ==
    /\ CtlFound(q) # {}
    /\ q.signed => SigFile(q.sum) \in disk
    /\ \A f \in CtlFound(q) : DatFile(f.datahash) \in disk

\* C16 (as claimed): the names cachePackage gives the files of a package
\* whose checksum decodes are the names cachedPackage looks for: once a call
\* has adopted its package, the control, signature and data file of a lookup
\* of that package are in the cache directory.
C16_SameNames ==
    \A c \in Callers :
       (cret[c].what = "adopted" /\ cret[c].by = c /\ Decodable(Pkg(c))) =>
          LookupFinds(Pkg(c))

\* C16 (amended): adoption names the files by the hashes of the expanded
\* archive, lookup by the declared checksum and the datahash the control
\* file declares; for a package whose declared checksum is the hash of its
\* control segment the names are the same: once a call has adopted it, a
\* lookup of the package finds its files, and the cache directory holds the
\* files named hex(checksum).ctl.tar.gz, hex(checksum).sig.tar.gz (if
\* signed) and hex(datahash).dat.tar.gz.
C16_SameNamesConsistent ==
    \A c \in Callers :
       (cret[c].what = "adopted" /\ cret[c].by = c /\ Consistent(Pkg(c))) =>
          /\ LookupFinds(Pkg(c))
          /\ {CtlFile(Pkg(c).sum, Pkg(c).dat), DatFile(Pkg(c).dat)} \subseteq disk
          /\ Pkg(c).signed => SigFile(Pkg(c).sum) \in disk

\* C16 (witness): a call has adopted the archive of u1 and a call for its
\* other URL has found it in the cache.
C16_Witness ==
    \E c1, c2 \in Callers :
       /\ cret[c1] = Res("exp", c1, "adopted")
       /\ Consistent(Pkg(c1))
       /\ Url(c2) # Url(c1)
       /\ cret[c2] = Res("exp", c2, "cached, signed")

\* the lookup of call c has failed
Missed(c) ==
    /\ "lookup" \in did[c]
    /\ "hit" \notin did[c]
    /\ cpc[c] \notin {"lookupSig", "lookupDat"}

\* the errors of the steps that follow a miss
AfterMissErrors ==
    {"MkdirAll", "FetchPackage", "ExpandApk", "AdvertiseCachedFile", "closing tarfs",
     "tarfs.New"}

\* what call c itself has got from expandPackage so far
Own(c) == IF cexp[c] # NoRes THEN cexp[c] ELSE cret[c]

\* C17: a call whose cache lookup failed goes on to MkdirAll and, unless a
\* later step fails, to the fetch, the expansion and the adoption: it never
\* ends on the lookup, an error it returns is the error of a later step, and
\* a handle it returns is the adopted one of a fetch and an expansion.
C17_MissIsNotAnError ==
    \A c \in Callers :
       Missed(c) =>
          /\ cpc[c] = "mkdir" \/ "mkdir" \in did[c]
          /\ cpc[c] \in {"store", "onceDone", "load", "ret"} =>
                \/ Own(c).kind = "err" /\ Own(c).by = c /\ Own(c).what \in AfterMissErrors
                \/ /\ Own(c) = Res("exp", c, "adopted")
                   /\ {"fetch", "expand", "adopt"} \subseteq did[c]

\* C17 (witness): a call whose lookup failed on the checksum tag, and one
\* whose lookup found the control and the signature file and failed on the
\* data file, have fetched, expanded and adopted their packages.
C17_Witness ==
    \E c1, c2 \in Callers :
       /\ Pkg(c1).tag # "Q1" /\ Missed(c1) /\ cret[c1] = Res("exp", c1, "adopted")
       /\ csigned[c2] /\ Missed(c2) /\ cret[c2] = Res("exp", c2, "adopted")

\* call c has left expandPackage
Left(c) == cpc[c] \in {"store", "onceDone", "load", "ret"}

\* C18: a call with a cache directory that fetched and expanded its package
\* returns a handle only when the adoption succeeded: the handle is the
\* adopted one and the whole entry is in the cache directory; when a step
\* of the adoption failed the call returns that error, and never the handle
\* of the temporary area.
C18_AdoptFailureIsError ==
    \A c \in Callers :
       (HasCache(c) /\ "adopt" \in did[c] /\ Left(c)) =>
          /\ Own(c).by = c
          /\ Own(c).kind \in {"exp", "err"}
          /\ Own(c).kind = "exp" =>
                /\ Own(c).what = "adopted"
                /\ Entry(Pkg(c)) \subseteq disk
          /\ Own(c).kind = "err" =>
                Own(c).what \in {"AdvertiseCachedFile", "closing tarfs", "tarfs.New"}
          /\ Returned(c) => cret[c] = Own(c)

\* C18 (witness): the adoption of a fetched and expanded package failed at
\* the data file, after its control file was adopted, and the call has
\* returned the error.
C18_Witness ==
    \E c \in Callers :
       /\ HasCache(c)
       /\ {"fetch", "expand", "adopt"} \subseteq did[c]
       /\ Returned(c)
       /\ cret[c] = Res("err", c, "AdvertiseCachedFile")
       /\ CtlFile(Pkg(c).ctl, Pkg(c).dat) \in disk
       /\ DatFile(Pkg(c).dat) \notin disk

\* C19 (as claimed): when the expansion of index k is the only step that
\* failed and the context was not cancelled, the call returns the error of
\* the worker of index k ("expanding <pkg>", wrapping the error of
\* expandPackage), whatever the interleaving of that worker and the applier.
C19_ReturnsWorkerError ==
    \A k \in Idx :
       (mpc = "done" /\ OnlyExpansionFailed(k) /\ ~ctxDone) =>
          ret = [kind |-> "err", err |-> Err("expanding", k), cause |-> FALSE]

\* C20: under fair scheduling a call of InstallPackages ends: every ready
\* marker is closed in the end, also that of a failed expansion; whenever
\* the applier waits in its select it leaves it; and the join completes,
\* so that the call returns.
C20_Terminates ==
    /\ (apc = "select") ~> (apc # "select")
    /\ <>[](mpc = "done" /\ AllReturned /\ Quiet /\ \A i \in Idx : done[i])

\* C20 (witness): a call has returned after a failed expansion, with every
\* ready marker closed and every task of the group gone.
C20_Witness ==
    /\ mpc = "done"
    /\ \A i \in Idx : done[i]
    /\ \E i \in Idx : ~expanded[i]
    /\ Quiet
    /\ ~ctxDone

\* C21: a call of CalculateWorld takes no apply step and leaves the target
\* as it is; it returns only when every worker has returned; when every
\* expansion succeeded it returns the list whose entry i is the expansion of
\* package i made by the worker of index i; when an expansion failed it
\* returns an error and no list.
C21_WorldInInputOrder ==
    /\ apc = "idle" /\ wrote = {} /\ scripts = {} /\ triggers = {} /\ resolved = 0
    /\ \A i \in Idx : status[i] = "pending" /\ infos[i] = NilPkg /\ ~done[i]
    /\ \A j \in 1 .. Len(db) : db[j].pkg = OldPkg
    /\ (fpc = "returned" /\ ret # [kind |-> "err", err |-> Err("ResolveWorld", -1), cause |-> FALSE]) =>
          /\ AllReturned /\ \A i \in Idx : wpc[i] = "exited"
          /\ IF \A i \in Idx : werr[i] = NoErr
             THEN ret = [kind |-> "ok",
                         world |-> [i \in Idx |-> APKResolved(allpkgs[i], i)]]
             ELSE ret.kind = "err" /\ \E i \in Idx : ret.err = werr[i] /\ werr[i] # NoErr

\* C21 (witness): the expansion of the last index has finished and filled
\* its own entry while the expansion of the first index is still running.
C21_Witness ==
    /\ fpc = "calcWait"
    /\ wpc[0] = "expanding" /\ world[0] = NoWorld
    /\ wpc[NPkgs - 1] = "exited"
    /\ world[NPkgs - 1] = APKResolved(allpkgs[NPkgs - 1], NPkgs - 1)
    /\ allpkgs[0] # allpkgs[NPkgs - 1]

\* C22: within a call of InstallPackages a ready marker done[i] changes only
\* once, from open to closed, in the step in which the worker of index i
\* runs its deferred close; a closed marker means that worker has stored
\* expanded[i] or has failed; the applier is past its wait for index i only
\* when done[i] is closed, so the slot it reads is nil only when the
\* expansion of index i failed; when the join has returned every marker is
\* closed.
C22_ClosedOnceAfterResult ==
    /\ [](\A i \in Idx :
            /\ done[i] => /\ wpc[i] \in {"returning", "exited"}
                          /\ expanded[i] # (werr[i] # NoErr)
            /\ (status[i] # "pending" \/ (apc = "picked" /\ ai = i)) => done[i]
            /\ (apc = "picked" /\ ai = i /\ ~expanded[i]) => werr[i] = Err("expanding", i)
            /\ (mpc \in {"finalize", "resolve", "done"} /\ Invoked) => done[i])
    /\ [][run' = run =>
            \A i \in Idx : done'[i] # done[i] =>
                /\ ~done[i]
                /\ wpc[i] = "closing" /\ wpc'[i] = "returning"
                /\ \A j \in Idx \ {i} : done'[j] = done[j]]_vars

\* C22 (witness): the applier has woken on the closed marker of an index
\* whose expansion failed and is about to read the nil slot.
C22_Witness ==
    /\ apc = "picked"
    /\ done[ai] /\ ~expanded[ai]
    /\ werr[ai] = Err("expanding", ai)
    /\ ai > 0

\* the workers that hold a token of the group, and whether the applier does
HoldingWorkers == {i \in Idx : wpc[i] \in {"running", "expanding", "closing", "returning"}}
ApplierHolds == apc \notin {"idle", "exited"}

\* C23: in a call of InstallPackages or of CalculateWorld the tasks of the
\* group that have started and not yet returned are never more than jobs+1,
\* the applier among them; so while the applier has not returned at most
\* jobs workers are running.
C23_BoundedParallelism ==
    /\ sem = Cardinality(HoldingWorkers) + (IF ApplierHolds THEN 1 ELSE 0)
    /\ sem <= jobs + 1
    /\ ApplierHolds => Cardinality(HoldingWorkers) <= jobs

\* C23 (witness): the applier and jobs workers are running and the main
\* goroutine has a further worker to start.
C23_Witness ==
    /\ mpc = "goWorkers" /\ mi < NPkgs
    /\ ApplierHolds
    /\ Cardinality({i \in Idx : wpc[i] = "running"}) = jobs

\* the positions of a call inside cachePackage
Adopting(c) == cpc[c] \in {"adoptCtl", "adoptSig", "adoptDat", "adoptTar"}

\* C24: a call is in the adoption, or has taken a step of it, only when a
\* cache is configured and it has made the fetch and the expansion and
\* neither failed; a call without a cache makes no lookup, creates no
\* directory, takes no step of the adoption, leaves the cache directory as
\* it is, and a handle it returns is the temporary one of its own expansion.
C24_AdoptOnlyAfterExpansion ==
    \A c \in Callers :
       /\ (Adopting(c) \/ "adopt" \in did[c]) =>
             /\ HasCache(c)
             /\ {"mkdir", "fetch", "expand"} \subseteq did[c]
             /\ Own(c) \notin {Res("err", c, "FetchPackage"), Res("err", c, "ExpandApk")}
       /\ ~HasCache(c) =>
             /\ did[c] \subseteq {"fetch", "expand"}
             /\ ~Adopting(c)
             /\ (Returned(c) /\ cret[c].kind = "exp") =>
                   /\ cret[c] = Res("exp", c, "temporary")
                   /\ did[c] = {"fetch", "expand"}
       /\ (\A d \in Callers : ~HasCache(d)) => disk \in InitialDisks

\* C24 (witness): a call without a cache has returned the temporary handle
\* of its expansion while a call with a cache is adopting its own.
C24_Witness ==
    \E c, d \in Callers :
       /\ ~HasCache(c) /\ cret[c] = Res("exp", c, "temporary")
       /\ HasCache(d) /\ cpc[d] = "adoptDat" /\ "adopt" \in did[d]

\* the call was made in the process before and returned the handle of a
\* fetch, an expansion and an adoption
AdoptedBefore(c) == before[c].kind = "exp" /\ before[c].what = "adopted"

\* the lookup made for the url of the call was cut short: the cache
\* sub-directory of the package could not be named, or a file that exists
\* could not be read
CutShort(c) ==
    \E d \in Callers :
       /\ Url(d) = Url(c)
       /\ \/ "read failed" \in did[d]
          \/ Own(d).kind = "err" /\ Own(d).what = "cacheDirForPackage"

\* C25: a call with a cache directory for a package whose declared checksum
\* is the control hash of its archive, which in the process before returned
\* the handle of a fetch, an expansion and an adoption, finds every file it
\* looks for in the new process: unless its lookup is cut short it is a hit,
\* the call makes no fetch, no expansion and no adoption, and returns the
\* cached handle.
C25_AdoptThenLookup ==
    \A c \in Callers :
       (Consistent(Pkg(c)) /\ AdoptedBefore(c)) =>
          /\ LookupFinds(Pkg(c))
          /\ ~CutShort(c) =>
                /\ did[c] \subseteq {"get", "work", "lookup", "hit"}
                /\ cpc[c] \in {"call", "once", "lookupCtl", "lookupSig", "lookupDat",
                               "store", "onceDone", "load", "ret"}
                /\ Returned(c) => /\ cret[c].kind = "exp"
                                  /\ cret[c].what \in {"cached", "cached, signed"}

\* C25 (witness): in the new process the call that had fetched and adopted
\* the package returned the cached handle of its own lookup.
C25_Witness ==
    \E c \in Callers :
       /\ Consistent(Pkg(c)) /\ before[c] = Res("exp", c, "adopted")
       /\ ~CutShort(c)
       /\ Returned(c) /\ "hit" \in did[c] /\ "fetch" \notin did[c]
       /\ cret[c] = Res("exp", c, "cached, signed")

\* the control file and the data file the lookup of q looks for are both in
\* the cache directory
CtlAndDat(q) ==
    /\ Decodable(q)
    /\ CtlFound(q) # {}
    /\ \A f \in CtlFound(q) : DatFile(f.datahash) \in disk

\* C26 (the part that holds): a lookup becomes a hit only in a step taken
\* with the control file and the data file both in the cache directory, with
\* or without the signature file; a call that has had a hit, or returns a
\* cached handle, has both files in the cache directory.  So a lookup that
\* comes to the data file while an adoption has put the control file in
\* place and not yet the data file, or has given up there, is a miss.
C26_HitNeedsControlAndData ==
    /\ [](\A c \in Callers :
            /\ "hit" \in did[c] => CtlAndDat(Pkg(c))
            /\ (Returned(c) /\ cret[c].what \in {"cached", "cached, signed"}) =>
                  /\ CtlAndDat(Pkg(c))
                  /\ cret[c].what = "cached, signed" => SigFile(Pkg(c).sum) \in disk)
    /\ [][\A c \in Callers :
            ("hit" \in did'[c] /\ "hit" \notin did[c]) =>
               /\ cpc[c] = "lookupDat"
               /\ CtlAndDat(Pkg(c))]_vars

\* C26 (as claimed): a hit never returns a partially adopted entry: the
\* handle of a hit is made from the control file and the data file, and from
\* the signature file exactly when the entry in the cache directory has one.
C26_NoPartialEntry ==
    \A c \in Callers :
       "hit" \in did[c] =>
          /\ CtlAndDat(Pkg(c))
          /\ csigned[c] = (SigFile(Pkg(c).sum) \in disk)

\* C26 (the case of the part that holds): a lookup has found the control file
\* another call has just adopted and comes to the data file, which that call
\* has not yet adopted.
C26_Witness ==
    \E c, d \in Callers :
       /\ c # d
       /\ cpc[d] = "adoptDat" /\ "adopt" \in did[d]
       /\ Pkg(c).sum = Pkg(d).ctl
       /\ cpc[c] = "lookupDat"
       /\ ~CtlAndDat(Pkg(c))

\* the join of the group is about to return, in InstallPackages or in
\* CalculateWorld
AtJoin == mpc = "wait" \/ fpc = "calcWait"

\* C27 (as claimed): an error InstallPackages or CalculateWorld returns
\* once the join has returned carries the cause exactly when the context
\* was cancelled as the join returned.
C27_CauseIffCancelledAtJoin ==
    (ret.kind = "err" /\ joined # "none") => (ret.cause <=> joined = "cancelled")

\* C27 (amended): the error of the join, which is the error of the first
\* failed task of the group, is returned with the cause exactly when the
\* context is cancelled at that moment; an error returned at another place,
\* by the steps that follow a successful join among them, carries no cause.
C27_JoinErrorCarriesCause ==
    [][(ret' # ret /\ ret'.kind = "err") =>
          IF AtJoin
          THEN ret'.cause = ctxDone /\ ret'.err = gerr /\ gerr # NoErr
          ELSE ~ret'.cause]_vars

\* C27 (witness): InstallPackages has returned the error of the applier,
\* which saw the context cancelled, annotated with the cause.
C27_Witness ==
    /\ mpc = "done" /\ Invoked
    /\ ret = [kind |-> "err", err |-> Err("ctx", -1), cause |-> TRUE]

\* C28: a result stored for a URL, an error included, is never replaced and
\* its Once never becomes unused again; the function is run by at most one
\* call of get for the URL; a call of get that did not run it makes no
\* lookup, no fetch and no expansion, whatever checksum its package declares,
\* and every call of get returns the stored result.
C28_SlotsAreKept ==
    /\ [](\A u \in URLs : Cardinality(Runners(u)) <= 1)
    /\ [](\A c \in Callers :
            /\ ("get" \in did[c] /\ "work" \notin did[c]) => did[c] = {"get"}
            /\ (Returned(c) /\ "get" \in did[c]) =>
                  cret[c] = resps[Url(c)] /\ cret[c] # NoRes)
    /\ [][\A u \in URLs :
            /\ resps[u] # NoRes => resps'[u] = resps[u]
            /\ onces[u] = "done" => onces'[u] = "done"]_vars

\* C28 (witness): the call that ran the function stored the error of its
\* fetch; a later call for the URL, whose package declares another checksum,
\* has returned that error and has done nothing but get.
C28_Witness ==
    \E c, d \in Callers :
       /\ Url(c) = Url(d) /\ Pkg(c).sum # Pkg(d).sum
       /\ "work" \in did[c]
       /\ resps[Url(c)] = Res("err", c, "FetchPackage")
       /\ Returned(d) /\ did[d] = {"get"}
       /\ cret[d] = Res("err", c, "FetchPackage")

\* C29: with every expansion returning, a handle or an error, a call of get
\* is past once.Do only when a result is stored for its URL, so no call
\* returns through the panic "did not see apk after writing it".
C29_PanicUnreachable ==
    \A c \in Callers :
       /\ cpc[c] = "load" => resps[Url(c)] # NoRes
       /\ cret[c].kind # "panic"
       /\ cexp[c].kind # "panic"

\* C29 (witness): a call that waited in once.Do while another call ran the
\* function for its URL is about to load the result, which is stored.
C29_Witness ==
    \E c, d \in Callers :
       /\ c # d /\ Url(c) = Url(d)
       /\ "work" \in did[d] /\ cpc[d] = "load"
       /\ did[c] = {"get"} /\ cpc[c] = "load"
       /\ resps[Url(c)] = cexp[d] /\ cexp[d] # NoRes

\* the installed database held no entry of the name n when the call began
NotInstalledBefore(n) == \A k \in 1 .. Len(db) : db[k].name = n => db[k].pkg.run = run

\* C30 (as claimed): when a name that was not installed before the call is
\* at two indices of the list, the apply step is carried out for at most one
\* of them and the database gets at most one entry of the name.
C30_DuplicateAppliedOnce ==
    \A i, j \in Idx :
       (i < j /\ allpkgs[i] = allpkgs[j] /\ NotInstalledBefore(allpkgs[i])) =>
          /\ ~(status[i] = "applied" /\ status[j] = "applied")
          /\ Cardinality({k \in 1 .. Len(db) : db[k].name = allpkgs[i]}) <= 1

\* the entries the installed database got in the current call
AppendedInCall == {k \in 1 .. Len(db) : db[k].pkg.run = run}

----------------------------------------------------------------------------
\* C32: resolveApkDB is idempotent.  A run that returns nil leaves /lib a
\* symlink to usr/lib, or /lib/apk a symlink to usr/lib/apk (absolute or
\* relative, as the run compares them); a link the run created itself has the
\* target ../usr/lib/apk.  Every run after a run that returned nil returns nil
\* as well, at one of the two Readlink tests, and /lib, /lib/apk and the
\* entries of /lib/apk are at every step of it what they were when it began.
LastRet == rrets[Len(rrets)]
AfterSuccess == Len(rrets) >= 1 /\ LastRet = "ok"
C32_ResolveIdempotent ==
    /\ (rpc = "idle" /\ AfterSuccess) =>
          /\ LinksTo(rlib, "/usr/lib") \/ LinksTo(rapk, "/usr/lib/apk")
          /\ rapk # rfs0[2] => rapk = Link("../usr/lib/apk")
    /\ (rpc # "idle" /\ AfterSuccess) =>
          /\ rpc \in {"readlinkLib", "readlinkApk"}
          /\ RootFs = rfs0
    /\ \A n \in 2 .. Len(rrets) : rrets[n - 1] = "ok" => rrets[n] = "ok"
    /\ (rpc = "idle" /\ Len(rrets) >= 2 /\ rrets[Len(rrets) - 1] = "ok") => RootFs = rfs0

\* Two runs have returned nil; the first one removed an empty entry of
\* /lib/apk and the directory and created the link, the second found it.
C32_Witness ==
    /\ rpc = "idle"
    /\ rrets = << "ok", "ok" >>
    /\ rlib = Dir
    /\ rapk = Link("../usr/lib/apk")
    /\ children # << >>
    /\ RootFs = rfs0

\* C33: a run that refuses to replace the directory /lib/apk, because an
\* entry of it is a file or a directory that is not empty, returns an error
\* and has removed no entry of /lib/apk: the filesystem is what it was when
\* the run began.
C33_RefusalChangesNothing ==
    (rpc = "idle" /\ Len(rrets) >= 1 /\ LastRet = "refusing to replace")
        => /\ RootFs = rfs0
           /\ Len(rkids) = Len(children)


============================================================================
